---- MODULE Spec2Model ----
(***************************************************************************)
(* Star-schema pipeline of app.py: load_and_prepare_raw (date parsing,     *)
(* postal clean-up, logical de-duplication), build_star_schema (five       *)
(* dimensions, their natural-key lookups and the fact table) and           *)
(* make_summary_json (monthly trend and the other roll-ups).               *)
(*                                                                         *)
(* Text is a sequence of code points, so that Python's string ordering,    *)
(* strip() and endswith() are computed and not assumed.  A Timestamp is    *)
(* the number of days since 1970-01-01 (the inputs hold dates only), NaT   *)
(* is the missing Timestamp.  Sales amounts are in thousandths.            *)
(***************************************************************************)
EXTENDS Integers, Sequences, FiniteSets, TLC

VARIABLES pc, csv, raw, schema, df_filtered, summary

vars == <<pc, csv, raw, schema, df_filtered, summary>>

\* ------------------------------------------------------------ bounds

\* Largest number of rows of the input file.
MaxRows == 3

\* ------------------------------------------------------------ values

\* pandas' missing Timestamp (errors="coerce" yields it).
NaT == -1

\* The missing value of a numeric key column (Series.map on a lookup miss).
NaN == -1

\* "Unknown"
Unknown == <<85, 110, 107, 110, 111, 119, 110>>

\* "NaT", what astype(str) makes of a missing period.
NaTLabel == <<78, 97, 84>>

\* Python's whitespace, as str.strip() sees it.
IsSpace(c) == c \in {9, 10, 11, 12, 13, 32}

IsDigit(c) == c \in 48..57

\* ------------------------------------------------------------ sequences

Range(s) == {s[i] : i \in DOMAIN s}

\* The rows of s at the positions in keep, in the order of s (a boolean mask).
Take(s, keep) ==
    LET f[i \in 0..Len(s)] ==
            IF i = 0 THEN <<>>
            ELSE IF i \in keep THEN Append(f[i - 1], s[i]) ELSE f[i - 1]
    IN  f[Len(s)]

\* Python's ordering of two strings (and of two tuples of the same kind):
\* by the first position where they differ, a proper prefix first.
TextLess(a, b) ==
    \E i \in 1..(Len(a) + 1) :
        /\ i <= Len(b)
        /\ \A j \in 1..(i - 1) : a[j] = b[j]
        /\ \/ i = Len(a) + 1
           \/ a[i] < b[i]

\* Ordering of two tuples of strings, column by column.
TupleLess(a, b) ==
    \E i \in 1..Len(a) :
        /\ \A j \in 1..(i - 1) : a[j] = b[j]
        /\ TextLess(a[i], b[i])

\* Every result a sort of the rows s by their sort keys can have (keys[i]
\* is the key of s[i]): the rows arranged with their keys in nondecreasing
\* order.  Rows with equal keys may come in any order (the default sort
\* kind, quicksort, is not stable).
SortOutcomes(s, keys) ==
    LET n == Len(s)
        ok(p) == \A i \in 1..n : \A j \in 1..n :
                    i < j => ~TupleLess(keys[p[j]], keys[p[i]])
    IN  {[i \in 1..n |-> s[p[i]]] : p \in {q \in Permutations(1..n) : ok(q)}}

\* duplicated(subset=..., keep="first"): the positions whose key (keys[i],
\* the row's values in the subset) occurred at an earlier position.
Duplicated(keys) ==
    {i \in DOMAIN keys : \E j \in 1..(i - 1) : keys[j] = keys[i]}

\* The rows of s that duplicate no earlier row in their keys.
DropDuplicates(s, keys) == Take(s, DOMAIN s \ Duplicated(keys))

\* ------------------------------------------------------------ text

RECURSIVE LStrip(_)
LStrip(s) == IF s # <<>> /\ IsSpace(Head(s)) THEN LStrip(Tail(s)) ELSE s

RECURSIVE RStrip(_)
RStrip(s) ==
    IF s # <<>> /\ IsSpace(s[Len(s)]) THEN RStrip(SubSeq(s, 1, Len(s) - 1)) ELSE s

Strip(s) == RStrip(LStrip(s))

EndsWith(s, suffix) ==
    /\ Len(s) >= Len(suffix)
    /\ SubSeq(s, Len(s) - Len(suffix) + 1, Len(s)) = suffix

\* The decimal digits of a natural number.
RECURSIVE Digits(_)
Digits(n) == IF n < 10 THEN <<48 + n>> ELSE Append(Digits(n \div 10), 48 + (n % 10))

\* n in at least w digits, zero padded.
RECURSIVE Pad(_, _)
Pad(s, w) == IF Len(s) >= w THEN s ELSE Pad(<<48>> \o s, w)

\* str(x) of a postal cell: a string is itself, a float prints with its
\* fraction (90210.0 is "90210.0"), an integer prints its digits.
Str(x) ==
    CASE x.kind = "str" -> x.txt
      [] x.kind = "float" -> Digits(x.num) \o <<46, 48>>
      [] x.kind = "int" -> Digits(x.num)
      [] OTHER -> <<110, 97, 110>>

isna(x) == x.kind = "nan"

clean_postal(x) ==
    IF isna(x) THEN Unknown
    ELSE LET s == Strip(Str(x))
         IN  IF EndsWith(s, <<46, 48>>) THEN SubSeq(s, 1, Len(s) - 2) ELSE s

\* ------------------------------------------------------------ calendar

IsLeap(y) == (y % 4 = 0 /\ y % 100 # 0) \/ y % 400 = 0

DaysInMonth(y, m) ==
    IF m = 2 THEN (IF IsLeap(y) THEN 29 ELSE 28)
    ELSE IF m \in {4, 6, 9, 11} THEN 30 ELSE 31

\* Days since 1970-01-01 of a proleptic Gregorian date.
DaysFromCivil(y0, m, d) ==
    LET y == IF m <= 2 THEN y0 - 1 ELSE y0
        era == y \div 400
        yoe == y - era * 400
        mp == IF m > 2 THEN m - 3 ELSE m + 9
        doy == (153 * mp + 2) \div 5 + d - 1
        doe == yoe * 365 + yoe \div 4 - yoe \div 100 + doy
    IN  era * 146097 + doe - 719468

\* The date <<year, month, day>> of a day number.
CivilFromDays(z0) ==
    LET z == z0 + 719468
        era == z \div 146097
        doe == z - era * 146097
        yoe == (doe - doe \div 1460 + doe \div 36524 - doe \div 146096) \div 365
        doy == doe - (365 * yoe + yoe \div 4 - yoe \div 100)
        mp == (5 * doy + 2) \div 153
        d == doy - (153 * mp + 2) \div 5 + 1
        m == IF mp < 10 THEN mp + 3 ELSE mp - 9
        y == yoe + era * 400
    IN  <<IF m <= 2 THEN y + 1 ELSE y, m, d>>

\* pd.to_datetime(cell, dayfirst=True, errors="coerce") of a cell holding
\* day/month/year: the Timestamp when that is a date of the calendar, NaT
\* otherwise (an empty cell is <<0, 0, 0>>).
to_datetime(c) ==
    IF c[2] \in 1..12 /\ c[3] >= 1 /\ c[1] >= 1 /\ c[1] <= DaysInMonth(c[3], c[2])
    THEN DaysFromCivil(c[3], c[2], c[1])
    ELSE NaT

\* strftime("%Y%m%d").astype(int)
DateKey(t) ==
    LET c == CivilFromDays(t) IN c[1] * 10000 + c[2] * 100 + c[3]

\* dt.to_period("M").astype(str): "YYYY-MM", and "NaT" for a missing date.
MonthLabel(t) ==
    IF t = NaT THEN NaTLabel
    ELSE LET c == CivilFromDays(t)
         IN  Pad(Digits(c[1]), 4) \o <<45>> \o Pad(Digits(c[2]), 2)

\* ------------------------------------------------------------ load_and_prepare_raw

\* Every column but Row ID, the subset duplicated() compares.
cols_no_rowid(r) ==
    <<r.order_id, r.order_date, r.ship_date, r.ship_mode, r.customer_id,
      r.customer_name, r.segment, r.country, r.region, r.state, r.city,
      r.postal_code, r.product_id, r.product_name, r.category, r.sub_category,
      r.sales>>

\* The frame with both date columns parsed and the postal codes cleaned.
Normalized(file) ==
    [i \in DOMAIN file |->
        [file[i] EXCEPT !.order_date = to_datetime(@),
                        !.ship_date = to_datetime(@),
                        !.postal_code = clean_postal(@)]]

\* df.loc[~df.duplicated(subset=cols_no_rowid, keep="first")]
WithoutLogicalDuplicates(df) ==
    DropDuplicates(df, [i \in DOMAIN df |-> cols_no_rowid(df[i])])

\* As load_and_prepare_raw, with the duplicates dropped before the dates
\* and postal codes are normalized.
load_dedup_before_normalizing(file) == Normalized(WithoutLogicalDuplicates(file))

load_and_prepare_raw(file) == WithoutLogicalDuplicates(Normalized(file))

\* ------------------------------------------------------------ build_star_schema

\* The pairs <<key, row>> of P as a sequence with the keys increasing.
RECURSIVE SortedPairs(_)
SortedPairs(P) ==
    IF P = {} THEN <<>>
    ELSE LET least == CHOOSE x \in P : \A y \in P : ~TupleLess(y[1], x[1])
         IN  <<least>> \o SortedPairs(P \ {least})

\* The rows of a set of pairs <<key, row>> as a frame sorted by key (no two
\* rows have the same key).
SortedFrame(P) ==
    LET sorted == SortedPairs(P)
    IN  [i \in DOMAIN sorted |-> sorted[i][2]]

\* The one result of a sort of the rows s whose keys are all different.
SortValues(s, keys) == SortedFrame({<<keys[i], s[i]>> : i \in DOMAIN s})

\* dict(zip(ks, vs)): a later pair replaces an earlier one with the same key.
DictZip(ks, vs) ==
    [k \in Range(ks) |->
        vs[CHOOSE i \in DOMAIN ks :
              ks[i] = k /\ \A j \in DOMAIN ks : ks[j] = k => j <= i]]

\* Series.map(dict): a value that is no key of the dict maps to NaN.
MapGet(d, k) == IF k \in DOMAIN d THEN d[k] ELSE NaN

\* groupby(["Product ID", "Product Name"]).size().reset_index(name="n"),
\* sorted by Product ID ascending, n descending, Product Name ascending.
\* As NameCountKey, with n ascending.
NameCountKeyAscending(g) == <<g.product_id, <<g.n>>, g.product_name>>

NameCountKey(g) == <<g.product_id, <<0 - g.n>>, g.product_name>>

GroupKey(g) == <<g.product_id, g.product_name>>

name_counts(df) ==
    LET groups == {[product_id |-> r.product_id, product_name |-> r.product_name,
                    n |-> Cardinality({i \in DOMAIN df :
                              /\ df[i].product_id = r.product_id
                              /\ df[i].product_name = r.product_name})] :
                   r \in Range(df)}
        grouped == SortedFrame({<<GroupKey(g), g>> : g \in groups})
    IN  SortValues(grouped, [i \in DOMAIN grouped |-> NameCountKey(grouped[i])])

\* drop_duplicates("Product ID") of name_counts, indexed by Product ID.
mode_name(df) ==
    LET counts == name_counts(df)
        first == DropDuplicates(counts, [i \in DOMAIN counts |-> counts[i].product_id])
    IN  [p \in {g.product_id : g \in Range(first)} |->
            (CHOOSE g \in Range(first) : g.product_id = p).product_name]

\* Series.min() and Series.max() of a datetime column: NaT is skipped, and
\* is the answer when nothing else is there.
SeriesMin(vals) ==
    LET valid == {v \in Range(vals) : v # NaT}
    IN  IF valid = {} THEN NaT ELSE CHOOSE v \in valid : \A w \in valid : v <= w

SeriesMax(vals) ==
    LET valid == {v \in Range(vals) : v # NaT}
    IN  IF valid = {} THEN NaT ELSE CHOOSE v \in valid : \A w \in valid : v >= w

\* Timestamp ordering: every comparison with NaT is False.
TsLess(a, b) == a # NaT /\ b # NaT /\ a < b

\* The builtins min(a, b) and max(a, b): b replaces a only when b < a (b > a).
PyMin(a, b) == IF TsLess(b, a) THEN b ELSE a

PyMax(a, b) == IF TsLess(a, b) THEN b ELSE a

OrderDates(df) == [i \in DOMAIN df |-> df[i].order_date]

ShipDates(df) == [i \in DOMAIN df |-> df[i].ship_date]

min_all(df) == PyMin(SeriesMin(OrderDates(df)), SeriesMin(ShipDates(df)))

max_all(df) == PyMax(SeriesMax(OrderDates(df)), SeriesMax(ShipDates(df)))

\* pd.date_range raises ValueError when an end point is NaT.
DateRangeRaises(df) == min_all(df) = NaT \/ max_all(df) = NaT

\* pd.date_range(min_all, max_all, freq="D")
date_range(lo, hi) ==
    IF hi < lo THEN <<>> ELSE [i \in 1..(hi - lo + 1) |-> lo + i - 1]

\* dim_date: one row per day of the range (month_name and week_of_year, two
\* more attributes derived from full_date, are left out).
dim_date(df) ==
    LET days == date_range(min_all(df), max_all(df))
    IN  [i \in DOMAIN days |->
            LET c == CivilFromDays(days[i])
            IN  [full_date |-> days[i],
                 date_key |-> DateKey(days[i]),
                 day |-> c[3],
                 month |-> c[2],
                 quarter |-> (c[2] - 1) \div 3 + 1,
                 year |-> c[1]]]

date_to_key(dd) ==
    DictZip([i \in DOMAIN dd |-> dd[i].full_date], [i \in DOMAIN dd |-> dd[i].date_key])

CustomerCols(r) ==
    [customer_id |-> r.customer_id, customer_name |-> r.customer_name,
     segment |-> r.segment]

\* df[["Customer ID", "Customer Name", "Segment"]].drop_duplicates()
CustomerRows(df) ==
    LET cols == [i \in DOMAIN df |-> CustomerCols(df[i])]
    IN  DropDuplicates(cols, cols)

\* Every result sort_values("Customer ID") of those rows can have.
CustomerSorts(df) ==
    LET rows == CustomerRows(df)
    IN  SortOutcomes(rows, [i \in DOMAIN rows |-> <<rows[i].customer_id>>])

\* As dim_customer, with the keys numbered from 0.
dim_customer_from_zero(sorted) ==
    [i \in DOMAIN sorted |->
        [customer_key |-> i - 1,
         customer_id |-> sorted[i].customer_id,
         customer_name |-> sorted[i].customer_name,
         segment |-> sorted[i].segment]]

\* dim_customer, given the result `sorted` of sort_values("Customer ID").
dim_customer(sorted) ==
    [i \in DOMAIN sorted |->
        [customer_key |-> i,
         customer_id |-> sorted[i].customer_id,
         customer_name |-> sorted[i].customer_name,
         segment |-> sorted[i].segment]]

cust_to_key(dc) ==
    DictZip([i \in DOMAIN dc |-> dc[i].customer_id],
            [i \in DOMAIN dc |-> dc[i].customer_key])

ProductCols(r) ==
    [product_id |-> r.product_id, category |-> r.category,
     sub_category |-> r.sub_category]

\* df[["Product ID", "Category", "Sub-Category"]].drop_duplicates()
ProductRows(df) ==
    LET cols == [i \in DOMAIN df |-> ProductCols(df[i])]
    IN  DropDuplicates(cols, cols)

\* Every result sort_values("Product ID") of those rows can have.
ProductSorts(df) ==
    LET rows == ProductRows(df)
    IN  SortOutcomes(rows, [i \in DOMAIN rows |-> <<rows[i].product_id>>])

\* dim_product, given the result `sorted` of sort_values("Product ID").
dim_product(df, sorted) ==
    LET names == mode_name(df)
    IN  [i \in DOMAIN sorted |->
            [product_key |-> i,
             product_id |-> sorted[i].product_id,
             category |-> sorted[i].category,
             sub_category |-> sorted[i].sub_category,
             product_name |-> MapGet(names, sorted[i].product_id)]]

prod_to_key(dp) ==
    DictZip([i \in DOMAIN dp |-> dp[i].product_id],
            [i \in DOMAIN dp |-> dp[i].product_key])

\* geo_cols
GeoTuple(r) == <<r.country, r.region, r.state, r.city, r.postal_code>>

dim_region(df) ==
    LET cols == [i \in DOMAIN df |-> GeoTuple(df[i])]
        rows == DropDuplicates(cols, cols)
        sorted == SortValues(rows, rows)
    IN  [i \in DOMAIN sorted |->
            [region_key |-> i,
             country |-> sorted[i][1],
             region |-> sorted[i][2],
             state |-> sorted[i][3],
             city |-> sorted[i][4],
             postal_code |-> sorted[i][5]]]

geo_to_key(dr) ==
    DictZip([i \in DOMAIN dr |->
                <<dr[i].country, dr[i].region, dr[i].state, dr[i].city,
                  dr[i].postal_code>>],
            [i \in DOMAIN dr |-> dr[i].region_key])

dim_ship_mode(df) ==
    LET cols == [i \in DOMAIN df |-> df[i].ship_mode]
        rows == DropDuplicates(cols, cols)
        sorted == SortValues(rows, [i \in DOMAIN rows |-> <<rows[i]>>])
    IN  [i \in DOMAIN sorted |-> [ship_mode_key |-> i, ship_mode |-> sorted[i]]]

ship_to_key(ds) ==
    DictZip([i \in DOMAIN ds |-> ds[i].ship_mode],
            [i \in DOMAIN ds |-> ds[i].ship_mode_key])

\* geo_to_key[t] raises KeyError for a tuple that is no key.
GeoLookupRaises(df, dr) ==
    LET geos == geo_to_key(dr)
    IN  \E i \in DOMAIN df : GeoTuple(df[i]) \notin DOMAIN geos

\* As InsertSalesId, with Row ID taken for the fact identifier.
InsertRowIdAsSalesId(rows) ==
    [i \in DOMAIN rows |->
        [sales_id |-> rows[i].row_id,
         row_id |-> rows[i].row_id,
         order_id |-> rows[i].order_id,
         order_date_key |-> rows[i].order_date_key,
         ship_date_key |-> rows[i].ship_date_key,
         customer_key |-> rows[i].customer_key,
         product_key |-> rows[i].product_key,
         region_key |-> rows[i].region_key,
         ship_mode_key |-> rows[i].ship_mode_key,
         sales_amount |-> rows[i].sales_amount]]

\* fact_sales.insert(0, "sales_id", range(1, len(fact_sales) + 1))
InsertSalesId(rows) ==
    [i \in DOMAIN rows |->
        [sales_id |-> i,
         row_id |-> rows[i].row_id,
         order_id |-> rows[i].order_id,
         order_date_key |-> rows[i].order_date_key,
         ship_date_key |-> rows[i].ship_date_key,
         customer_key |-> rows[i].customer_key,
         product_key |-> rows[i].product_key,
         region_key |-> rows[i].region_key,
         ship_mode_key |-> rows[i].ship_mode_key,
         sales_amount |-> rows[i].sales_amount]]

fact_sales(df, dd, dc, dp, dr, ds) ==
    LET dates == date_to_key(dd)
        custs == cust_to_key(dc)
        prods == prod_to_key(dp)
        geos == geo_to_key(dr)
        ships == ship_to_key(ds)
    IN  InsertSalesId([i \in DOMAIN df |->
            [row_id |-> df[i].row_id,
             order_id |-> df[i].order_id,
             order_date_key |-> MapGet(dates, df[i].order_date),
             ship_date_key |-> MapGet(dates, df[i].ship_date),
             customer_key |-> MapGet(custs, df[i].customer_id),
             product_key |-> MapGet(prods, df[i].product_id),
             region_key |-> geos[GeoTuple(df[i])],
             ship_mode_key |-> MapGet(ships, df[i].ship_mode),
             sales_amount |-> df[i].sales]])

NoTables(why) ==
    [status |-> why, dim_date |-> <<>>, dim_customer |-> <<>>, dim_product |-> <<>>,
     dim_region |-> <<>>, dim_ship_mode |-> <<>>, fact_sales |-> <<>>]

\* What build_star_schema(df) returns, or the exception that ends it, given
\* the results of its two sorts that can have ties.
build_star_schema(df, cust_sorted, prod_sorted) ==
    IF DateRangeRaises(df) THEN NoTables("ValueError")
    ELSE LET dd == dim_date(df)
             dc == dim_customer(cust_sorted)
             dp == dim_product(df, prod_sorted)
             dr == dim_region(df)
             ds == dim_ship_mode(df)
         IN  IF GeoLookupRaises(df, dr) THEN NoTables("KeyError")
             ELSE [status |-> "ok",
                   dim_date |-> dd,
                   dim_customer |-> dc,
                   dim_product |-> dp,
                   dim_region |-> dr,
                   dim_ship_mode |-> ds,
                   fact_sales |-> fact_sales(df, dd, dc, dp, dr, ds)]

\* ------------------------------------------------------------ make_summary_json

RECURSIVE SumSales(_)
SumSales(df) == IF df = <<>> THEN 0 ELSE Head(df).sales + SumSales(Tail(df))

\* round(float(v), 2) of an amount in thousandths (a half goes to the even
\* hundredth).
Round2(v) ==
    LET q == v \div 10
        r == v % 10
    IN  IF r > 5 \/ (r = 5 /\ q % 2 = 1) THEN (q + 1) * 10 ELSE q * 10

\* The number of products head() keeps.
TopN == 10

HeadRows(s, n) == IF Len(s) <= n THEN s ELSE SubSeq(s, 1, n)

\* groupby(col)["Sales"].sum(), col[i] being the column's value in row i:
\* one row per value of the column, sorted by it.
GroupSum(df, col) ==
    LET groups == {[label |-> l,
                    sales |-> SumSales(Take(df, {i \in DOMAIN df : col[i] = l}))] :
                   l \in Range(col)}
    IN  SortedFrame({<< <<g.label>>, g>> : g \in groups})

\* Every result sort_values(ascending=False) of a Series of sums can have.
DescendingSorts(sums) ==
    SortOutcomes(sums, [i \in DOMAIN sums |-> << <<0 - sums[i].sales>> >>])

\* groupby("Category")["Sales"].sum().sort_values(ascending=False)
CategorySorts(df) == DescendingSorts(GroupSum(df, [i \in DOMAIN df |-> df[i].category]))

\* groupby("Product Name")["Sales"].sum().sort_values(ascending=False)
ProductSalesSorts(df) ==
    DescendingSorts(GroupSum(df, [i \in DOMAIN df |-> df[i].product_name]))

Rounded(s) == [i \in DOMAIN s |-> [label |-> s[i].label, sales |-> Round2(s[i].sales)]]

\* assign(month=...).groupby("month")["Sales"].sum().reset_index()
\* .sort_values("month"), each sum rounded.
monthly_sales_trend(df) ==
    LET monthly == GroupSum(df, [i \in DOMAIN df |-> MonthLabel(df[i].order_date)])
    IN  Rounded(SortValues(monthly, [i \in DOMAIN monthly |-> <<monthly[i].label>>]))

NoSummary ==
    [total_sales |-> 0, sales_by_category |-> <<>>, top_products |-> <<>>,
     monthly_sales_trend |-> <<>>]

\* What make_summary_json(df) returns, given the results of its two
\* descending sorts (equal sums may come in any order).
make_summary_json(df, cat_sorted, top_sorted) ==
    [total_sales |-> Round2(SumSales(df)),
     sales_by_category |-> Rounded(cat_sorted),
     top_products |-> Rounded(HeadRows(top_sorted, TopN)),
     monthly_sales_trend |-> monthly_sales_trend(df)]

\* ------------------------------------------------------------ input files

StrCell(t) == [kind |-> "str", num |-> 0, txt |-> t]

FloatCell(n) == [kind |-> "float", num |-> n, txt |-> <<>>]

IntCell(n) == [kind |-> "int", num |-> n, txt |-> <<>>]

NanCell == [kind |-> "nan", num |-> 0, txt |-> <<>>]

\* 30/12/2020, 02/01/2021 and 31/02/2021, which is no date.
DateCells == {<<30, 12, 2020>>, <<2, 1, 2021>>, <<31, 2, 2021>>}

\* nan, 90.0, 90, "90", "90.0" and " "
PostalCells ==
    {NanCell, FloatCell(90), IntCell(90), StrCell(<<57, 48>>),
     StrCell(<<57, 48, 46, 48>>), StrCell(<<32>>)}

BaseRow ==
    [row_id |-> 0,
     order_id |-> <<79, 49>>,
     order_date |-> <<30, 12, 2020>>,
     ship_date |-> <<2, 1, 2021>>,
     ship_mode |-> <<70>>,
     customer_id |-> <<67, 49>>,
     customer_name |-> <<65, 108>>,
     segment |-> <<72>>,
     country |-> <<85, 83>>,
     region |-> <<87>>,
     state |-> <<67, 65>>,
     city |-> <<76, 65>>,
     postal_code |-> IntCell(90),
     product_id |-> <<80, 49>>,
     product_name |-> <<87>>,
     category |-> <<65>>,
     sub_category |-> <<120>>,
     sales |-> 1000]

\* Rows that differ in their dates.
DateRows ==
    {[BaseRow EXCEPT !.order_date = od, !.ship_date = sd] :
        od \in DateCells, sd \in DateCells}

\* Rows that differ in their postal code and their city, "LA" or "AZ".
GeoRows ==
    {[BaseRow EXCEPT !.postal_code = p, !.city = c] :
        p \in PostalCells, c \in {<<76, 65>>, <<65, 90>>}}

\* Rows that differ in customer: identifiers "C1", "C2", names "Al", "Bo",
\* and segment "H" with ship mode "F" or segment "C" with ship mode "S".
CustRows ==
    {[BaseRow EXCEPT !.customer_id = c, !.customer_name = n,
                     !.segment = g[1], !.ship_mode = g[2]] :
        c \in {<<67, 49>>, <<67, 50>>},
        n \in {<<65, 108>>, <<66, 111>>},
        g \in {<< <<72>>, <<70>> >>, << <<67>>, <<83>> >>}}

\* Rows that differ in product: identifiers "P1", "P2", names "W", "w",
\* categories "A", "B".
ProdRows ==
    {[BaseRow EXCEPT !.product_id = p, !.product_name = n, !.category = c] :
        p \in {<<80, 49>>, <<80, 50>>},
        n \in {<<87>>, <<119>>},
        c \in {<<65>>, <<66>>}}

\* Rows that differ in order date and amount: 1.000 of "W" in category "A",
\* 22.368 of "W" in "A", 1.000 of "w" in "B".
SalesRows ==
    {[BaseRow EXCEPT !.order_date = od, !.sales = g[1], !.product_name = g[2],
                     !.category = g[3]] :
        od \in DateCells,
        g \in {<<1000, <<87>>, <<65>> >>, <<22368, <<87>>, <<65>> >>,
               <<1000, <<119>>, <<66>> >>}}

\* The text is a number as read_csv reads one: digits, and possibly a point
\* and more digits.
IsNumberText(t) ==
    /\ t # <<>>
    /\ IsDigit(t[1])
    /\ \A i \in DOMAIN t : IsDigit(t[i]) \/ t[i] = 46
    /\ Cardinality({i \in DOMAIN t : t[i] = 46}) <= 1

\* read_csv gives the Postal Code column one dtype: int64 when every cell is
\* an integer, float64 when every cell is a number or empty, and object, the
\* cells kept as text, when some cell is no number.
PostalColumnOk(file) ==
    LET kinds == {file[i].postal_code.kind : i \in DOMAIN file}
    IN  \/ kinds \subseteq {"int"}
        \/ kinds \subseteq {"float", "nan"}
        \/ /\ kinds \subseteq {"str", "nan"}
           /\ \E i \in DOMAIN file :
                 /\ file[i].postal_code.kind = "str"
                 /\ ~IsNumberText(file[i].postal_code.txt)

\* Row ID is the line number.
WithRowIds(f) == [i \in DOMAIN f |-> [f[i] EXCEPT !.row_id = i]]

\* ------------------------------------------------------------ the program

\* A file of at most MaxRows rows, all of one of the row sets, is on disk.
InitFrom(rowsets) ==
    /\ pc = "start"
    /\ \E rows \in rowsets :
       \E n \in 0..MaxRows :
       \E f \in [1..n -> rows] :
          /\ PostalColumnOk(f)
          /\ csv = WithRowIds(f)
    /\ raw = <<>>
    /\ schema = NoTables("none")
    /\ df_filtered = <<>>
    /\ summary = NoSummary

Init == InitFrom({DateRows, GeoRows, CustRows, ProdRows, SalesRows})

\* raw = load_and_prepare_raw(csv_path)
LoadAndPrepareRaw ==
    /\ pc = "start"
    /\ raw' = load_and_prepare_raw(csv)
    /\ pc' = "loaded"
    /\ UNCHANGED <<csv, schema, df_filtered, summary>>

\* build_star_schema(raw): the six tables, or the exception that ends it.
BuildStarSchema ==
    /\ pc = "loaded"
    /\ \E cust_sorted \in CustomerSorts(raw) :
       \E prod_sorted \in ProductSorts(raw) :
          schema' = build_star_schema(raw, cust_sorted, prod_sorted)
    /\ pc' = IF schema'.status = "ok" THEN "built" ELSE "aborted"
    /\ UNCHANGED <<csv, raw, df_filtered, summary>>

\* make_summary_json(df_filtered), for df_filtered any selection of rows of
\* the normalized frame (all of them included).
MakeSummaryJson ==
    /\ pc = "loaded"
    /\ \E keep \in SUBSET DOMAIN raw :
          LET df == Take(raw, keep)
          IN  /\ df_filtered' = df
              /\ \E cat_sorted \in CategorySorts(df) :
                 \E top_sorted \in ProductSalesSorts(df) :
                    summary' = make_summary_json(df, cat_sorted, top_sorted)
    /\ pc' = "summarised"
    /\ UNCHANGED <<csv, raw, schema>>

Next == LoadAndPrepareRaw \/ BuildStarSchema \/ MakeSummaryJson

Spec == Init /\ [][Next]_vars

\* The normalizer followed by the dimensional build.
NextSchema == LoadAndPrepareRaw \/ BuildStarSchema

SpecSchema == Init /\ [][NextSchema]_vars

\* The same, on the files whose rows differ in product identifier, product
\* name and category (every other file holds one product name only).
InitProduct == InitFrom({ProdRows})

SpecProduct == InitProduct /\ [][NextSchema]_vars

\* The normalizer followed by the summary.
NextSummary == LoadAndPrepareRaw \/ MakeSummaryJson

SpecSummary == Init /\ [][NextSummary]_vars

\* ------------------------------------------------------------ properties

Built == schema.status = "ok"

\* The values of column col of a table.
Column(dim, col) == {dim[i][col] : i \in DOMAIN dim}

\* C1: in every fact table build_star_schema returns, each of the six
\* foreign keys of each row is a key of its dimension, the rows whose order
\* or ship date is missing included.
C1_ReferentialCompleteness ==
    Built =>
        \A i \in DOMAIN schema.fact_sales :
            LET f == schema.fact_sales[i]
            IN  /\ f.order_date_key \in Column(schema.dim_date, "date_key")
                /\ f.ship_date_key \in Column(schema.dim_date, "date_key")
                /\ f.customer_key \in Column(schema.dim_customer, "customer_key")
                /\ f.product_key \in Column(schema.dim_product, "product_key")
                /\ f.region_key \in Column(schema.dim_region, "region_key")
                /\ f.ship_mode_key \in Column(schema.dim_ship_mode, "ship_mode_key")

\* A natural key of record r is no key of its lookup.
LookupMiss(r) ==
    \/ r.order_date \notin Column(schema.dim_date, "full_date")
    \/ r.ship_date \notin Column(schema.dim_date, "full_date")
    \/ r.customer_id \notin Column(schema.dim_customer, "customer_id")
    \/ r.product_id \notin Column(schema.dim_product, "product_id")
    \/ r.ship_mode \notin Column(schema.dim_ship_mode, "ship_mode")
    \/ GeoTuple(r) \notin {GeoTuple(schema.dim_region[k]) : k \in DOMAIN schema.dim_region}

HasNullKey(f) ==
    NaN \in {f.order_date_key, f.ship_date_key, f.customer_key, f.product_key,
             f.region_key, f.ship_mode_key}

\* C2: a build in which some record's natural key has no entry in its
\* lookup ends in an error; a build that returns has had no such miss and
\* its fact table holds no null foreign key.
C2_LookupMissAborts ==
    Built =>
        /\ \A i \in DOMAIN raw : ~LookupMiss(raw[i])
        /\ \A i \in DOMAIN schema.fact_sales : ~HasNullKey(schema.fact_sales[i])

\* The key column of dim holds exactly 1 .. N, each once.
DenseKeys(dim, key) ==
    /\ Column(dim, key) = 1..Len(dim)
    /\ \A i \in DOMAIN dim : \A j \in DOMAIN dim : i # j => dim[i][key] # dim[j][key]

\* C3 (as claimed): the key column of each of the five dimensions, dim_date
\* included, holds exactly 1 .. N with no gap and no repeat.
C3_AllKeysDense ==
    Built =>
        /\ DenseKeys(schema.dim_date, "date_key")
        /\ DenseKeys(schema.dim_customer, "customer_key")
        /\ DenseKeys(schema.dim_product, "product_key")
        /\ DenseKeys(schema.dim_region, "region_key")
        /\ DenseKeys(schema.dim_ship_mode, "ship_mode_key")

\* C3 (amended): the key column of dim_customer, dim_product, dim_region and
\* dim_ship_mode holds exactly 1 .. N with no gap and no repeat; the keys of
\* dim_date do not repeat (they are dates written as numbers, not 1 .. N).
C3_SurrogateKeysDense ==
    Built =>
        /\ DenseKeys(schema.dim_customer, "customer_key")
        /\ DenseKeys(schema.dim_product, "product_key")
        /\ DenseKeys(schema.dim_region, "region_key")
        /\ DenseKeys(schema.dim_ship_mode, "ship_mode_key")
        /\ \A i \in DOMAIN schema.dim_date : \A j \in DOMAIN schema.dim_date :
              i # j => schema.dim_date[i].date_key # schema.dim_date[j].date_key

\* A build returned dimensions of several rows each.
C3_Witness ==
    /\ Built
    /\ Len(schema.dim_customer) >= 3
    /\ Len(schema.dim_ship_mode) >= 2
    /\ Len(schema.dim_date) >= 2

\* Two normalized rows agree on every column but Row ID.
LogicalDuplicates(a, b) == [a EXCEPT !.row_id = 0] = [b EXCEPT !.row_id = 0]

\* The row of the file on line i, with its dates parsed and its postal code
\* cleaned.
NormalizedLine(i) == Normalized(csv)[i]

\* C4: the table load_and_prepare_raw returns holds no two rows that agree
\* on every column but Row ID (as normalized), and holds, in the order of
\* the file, exactly the lines that no earlier line duplicates.
C4_NoLogicalDuplicates ==
    pc # "start" =>
        /\ \A i \in DOMAIN raw : \A j \in DOMAIN raw :
              i # j => ~LogicalDuplicates(raw[i], raw[j])
        /\ \A i \in DOMAIN raw : \A j \in DOMAIN raw :
              i < j => raw[i].row_id < raw[j].row_id
        /\ \A i \in DOMAIN raw : raw[i] = NormalizedLine(raw[i].row_id)
        /\ {raw[i].row_id : i \in DOMAIN raw}
             = {i \in DOMAIN csv :
                   \A j \in 1..(i - 1) :
                       ~LogicalDuplicates(NormalizedLine(j), NormalizedLine(i))}

\* Two lines that differ in the text of their postal code only ("90.0" and
\* "90", in a column that a third cell makes text) were loaded, and the
\* first alone was kept.
C4_Witness ==
    /\ pc = "loaded"
    /\ Len(csv) = 3
    /\ csv[1].postal_code.txt = <<57, 48, 46, 48>>
    /\ csv[3].postal_code.txt = <<57, 48>>
    /\ csv[2].postal_code.txt = <<32>>
    /\ Len(raw) = 2
    /\ raw[1].row_id = 1

\* The order and ship dates of the frame that are not missing.
ValidDates(df) == (Range(OrderDates(df)) \cup Range(ShipDates(df))) \ {NaT}

Least(S) == CHOOSE v \in S : \A w \in S : v <= w

Greatest(S) == CHOOSE v \in S : \A w \in S : v >= w

\* C5: when some order or ship date is valid, build_star_schema produces a
\* dim_date with one row per day from the least to the greatest valid date,
\* and date_key increases with full_date.
C5_DateDimensionSpansValidDates ==
    (schema.status # "none" /\ ValidDates(raw) # {}) =>
        /\ Built
        /\ Len(schema.dim_date) = Greatest(ValidDates(raw)) - Least(ValidDates(raw)) + 1
        /\ \A i \in DOMAIN schema.dim_date :
              schema.dim_date[i].full_date = Least(ValidDates(raw)) + i - 1
        /\ \A i \in DOMAIN schema.dim_date : \A j \in DOMAIN schema.dim_date :
              i < j => schema.dim_date[i].date_key < schema.dim_date[j].date_key

\* How often name n occurs with product p in the frame.
NameCount(df, p, n) ==
    Cardinality({i \in DOMAIN df : df[i].product_id = p /\ df[i].product_name = n})

NamesOf(df, p) == {df[i].product_name : i \in {j \in DOMAIN df : df[j].product_id = p}}

\* Name n wins for product p: no name occurs more often, and none that
\* occurs as often comes before it.
Wins(df, p, n) ==
    /\ n \in NamesOf(df, p)
    /\ \A m \in NamesOf(df, p) :
          /\ NameCount(df, p, m) <= NameCount(df, p, n)
          /\ (NameCount(df, p, m) = NameCount(df, p, n) /\ m # n) => TextLess(n, m)

Permuted(df, p) == [i \in DOMAIN df |-> df[p[i]]]

\* C6: every dim_product row carries the name that occurs most often with
\* its product identifier, the least of those tied, and every product
\* identifier of the records has a row; the names resolved from the records
\* in any other order are the same.
C6_MostFrequentName ==
    Built =>
        /\ \A i \in DOMAIN raw :
              raw[i].product_id \in Column(schema.dim_product, "product_id")
        /\ \A k \in DOMAIN schema.dim_product :
              Wins(raw, schema.dim_product[k].product_id,
                   schema.dim_product[k].product_name)
        /\ \A p \in Permutations(DOMAIN raw) :
              LET names == mode_name(Permuted(raw, p))
              IN  \A k \in DOMAIN schema.dim_product :
                     MapGet(names, schema.dim_product[k].product_id)
                        = schema.dim_product[k].product_name

\* A product has the name "w" twice and the name "W", which sorts first,
\* once: "w" is attached to it.
C6_Witness ==
    /\ Built
    /\ \E k \in DOMAIN schema.dim_product :
          LET d == schema.dim_product[k]
          IN  /\ d.product_name = <<119>>
              /\ NameCount(raw, d.product_id, <<119>>) = 2
              /\ NameCount(raw, d.product_id, <<87>>) = 1

\* C7: fact_sales has one row per normalized record, and its i-th row has
\* sales_id i and the row identifier, order identifier and amount of the
\* i-th record.
C7_FactRowPerRecord ==
    Built =>
        /\ Len(schema.fact_sales) = Len(raw)
        /\ \A i \in DOMAIN schema.fact_sales :
              /\ i \in DOMAIN raw
              /\ schema.fact_sales[i].sales_id = i
              /\ schema.fact_sales[i].row_id = raw[i].row_id
              /\ schema.fact_sales[i].order_id = raw[i].order_id
              /\ schema.fact_sales[i].sales_amount = raw[i].sales

\* A fact table of two rows was built from records of which the second is
\* not the second line of the file, and one has a missing date.
C7_Witness ==
    /\ Built
    /\ Len(schema.fact_sales) = 2
    /\ schema.fact_sales[2].row_id = 3
    /\ \E i \in DOMAIN raw : raw[i].ship_date = NaT

\* The text of a postal cell is empty or white space only.
Blank(t) == \A i \in DOMAIN t : IsSpace(t[i])

\* C8: the postal code of every loaded row is "Unknown" when the cell was
\* missing, empty or white space only, the text of the cell without its
\* ".0" when that text ends in ".0", and never null.
C8_PostalCanonical ==
    pc # "start" =>
        \A i \in DOMAIN raw :
            LET cell == csv[raw[i].row_id].postal_code
            IN  /\ (isna(cell) \/ Blank(Str(cell))) => raw[i].postal_code = Unknown
                /\ (~isna(cell) /\ EndsWith(Str(cell), <<46, 48>>)) =>
                      raw[i].postal_code \o <<46, 48>> = Str(cell)
                /\ raw[i].postal_code # <<-1>>

\* The label is YYYY-MM for a month of the calendar.
IsMonthLabel(t) ==
    /\ Len(t) = 7
    /\ \A i \in {1, 2, 3, 4, 6, 7} : IsDigit(t[i])
    /\ t[5] = 45
    /\ (t[6] - 48) * 10 + (t[7] - 48) \in 1..12

\* <<year, month>> of a date.
YearMonth(t) == <<CivilFromDays(t)[1], CivilFromDays(t)[2]>>

\* <<year, month>> a label names.
LabelYearMonth(t) ==
    <<(t[1] - 48) * 1000 + (t[2] - 48) * 100 + (t[3] - 48) * 10 + (t[4] - 48),
      (t[6] - 48) * 10 + (t[7] - 48)>>

Earlier(a, b) == a[1] < b[1] \/ (a[1] = b[1] /\ a[2] < b[2])

\* C9: monthly_sales_trend has one entry per month in which a record has
\* its order date, labelled YYYY-MM, with the sum of the sales of that
\* month's records (to the two decimals the summary is written in), the
\* entries in the order of time; a record whose order date is missing adds
\* no entry.
C9_MonthlyTrend ==
    pc = "summarised" =>
        LET trend == summary.monthly_sales_trend
            months == {YearMonth(r.order_date) :
                          r \in {x \in Range(df_filtered) : x.order_date # NaT}}
        IN  /\ \A i \in DOMAIN trend : IsMonthLabel(trend[i].label)
            /\ Len(trend) = Cardinality(months)
            /\ \A i \in DOMAIN trend :
                  /\ LabelYearMonth(trend[i].label) \in months
                  /\ trend[i].sales =
                        Round2(SumSales(Take(df_filtered,
                            {k \in DOMAIN df_filtered :
                                /\ df_filtered[k].order_date # NaT
                                /\ YearMonth(df_filtered[k].order_date)
                                     = LabelYearMonth(trend[i].label)})))
            /\ \A i \in DOMAIN trend : \A j \in DOMAIN trend :
                  i < j => Earlier(LabelYearMonth(trend[i].label),
                                   LabelYearMonth(trend[j].label))

\* C10: the dim_customer row a fact row points to has the customer
\* identifier, name and segment of the fact row's record, and the
\* dim_product row it points to has the record's product identifier,
\* category and sub-category.
C10_KeysPointAtOwnAttributes ==
    Built =>
        \A i \in DOMAIN schema.fact_sales :
            /\ \E k \in DOMAIN schema.dim_customer :
                  /\ schema.dim_customer[k].customer_key = schema.fact_sales[i].customer_key
                  /\ schema.dim_customer[k].customer_id = raw[i].customer_id
                  /\ schema.dim_customer[k].customer_name = raw[i].customer_name
                  /\ schema.dim_customer[k].segment = raw[i].segment
            /\ \E k \in DOMAIN schema.dim_product :
                  /\ schema.dim_product[k].product_key = schema.fact_sales[i].product_key
                  /\ schema.dim_product[k].product_id = raw[i].product_id
                  /\ schema.dim_product[k].category = raw[i].category
                  /\ schema.dim_product[k].sub_category = raw[i].sub_category

====
